---- MODULE Spec2Model ----
(***************************************************************************)
(* Chonky: content-addressed workspace reconciliation (chonky/client.py,   *)
(* chonky/s3_remote.py, chonky/base_remote.py).                            *)
(*                                                                         *)
(* Two users, each with a workspace, a .HEAD file, a checkout of the       *)
(* remote manifest file, a per-user cache and a Client object; one shared  *)
(* object store.  The remote manifest file travels between checkouts by    *)
(* the users' source control (VcsUpdate).                                  *)
(***************************************************************************)
EXTENDS Integers, Sequences, FiniteSets, TLC

\* ------------------------------------------------------------------ bounds
\* Number of events from outside the commands after the first command:
\* workspace edits (writes, deletions, also while a command runs),
\* interruptions of the process, and transfer failures that leave threads
\* of the pool running.
MaxEdits == 1

Clients == {"A", "B"}

\* A relative path is the sequence of its characters; only the leading
\* character is told apart from the rest of the name.
Paths == { <<"a", ".bin">>, <<"#", "b.bin">> }

\* File contents.
Bytes == {"x", "y"}

\* ------------------------------------------------------- pure functions

\* hashlib.sha1(...).hexdigest(): injective on the contents of the model.
HashFile(bytes) == CASE bytes = "x" -> "sha1_x" [] bytes = "y" -> "sha1_y"
                       [] OTHER -> "sha1_other"

Hashes == { HashFile(b) : b \in Bytes }

\* Unicode code point of a leading character (sorted() compares by it).
Codepoint(ch) == CASE ch = "#" -> 35 [] ch = "." -> 46 [] ch = ";" -> 59
                   [] ch = "a" -> 97 [] OTHER -> 122

MatchesIgnorePattern(file_path, patterns) == file_path \in patterns

\* RecursiveFiles: the non-ignored files under the workspace root.
RecursiveFiles(files, patterns) ==
    { p \in DOMAIN files : ~MatchesIgnorePattern(p, patterns) }

\* BuildConfigForRoot: the HEAD section path -> HashFile(path).
BuildConfigForRoot(files, patterns) ==
    [ p \in RecursiveFiles(files, patterns) |-> HashFile(files[p]) ]

\* The empty HEAD section.
EmptyHEAD == [ p \in {} |-> "" ]

\* sorted(config["HEAD"].items(), key=lambda t: t[0]): keys in ascending order.
RECURSIVE SortedKeys(_)
SortedKeys(keys) ==
    IF keys = {} THEN << >>
    ELSE LET k == CHOOSE x \in keys :
                    \A y \in keys : Codepoint(x[1]) <= Codepoint(y[1])
         IN  <<k>> \o SortedKeys(keys \ {k})

\* The line "[HEAD]" and the empty line configparser writes after a section.
SectionLine == << <<"[", "HEAD]">>, "" >>
BlankLine == << <<"">>, "" >>

\* WriteConfig: the text config.write(f) produces: the section header, one
\* line "key = value" per HEAD entry, sorted by key, and the empty line.  A
\* line is kept as the pair <<key, value>>.
WriteConfig(HEAD) ==
    LET ks == SortedKeys(DOMAIN HEAD)
    IN  <<SectionLine>> \o [ i \in 1..Len(ks) |-> <<ks[i], HEAD[ks[i]]>> ] \o <<BlankLine>>

\* path.open("w") truncates the file and config.write(f) fills it again: the
\* texts the file can hold when the process stops in between.
Truncations(text) == { SubSeq(text, 1, n) : n \in 0..(Len(text) - 1) }

\* The text is all of what a WriteConfig call wrote.
IsComplete(text) ==
    /\ Len(text) >= 2
    /\ text[1] = SectionLine
    /\ text[Len(text)] = BlankLine

\* configparser skips a line that starts with a comment prefix ('#' or ';').
IsCommentLine(line) == line[1][1] \in {"#", ";"}

\* A parser that read no [HEAD] section: config["HEAD"] raises KeyError.
NoHEAD == [ p \in { <<"">> } |-> "KeyError" ]

\* LoadConfig: the HEAD section parsed back from the text of the file.
LoadConfig(text) ==
    LET kept == { i \in 1..Len(text) :
                    /\ text[i] \notin {SectionLine, BlankLine}
                    /\ ~IsCommentLine(text[i]) }
    IN  IF \A i \in 1..Len(text) : text[i] # SectionLine THEN NoHEAD
        ELSE [ k \in { text[i][1] : i \in kept } |->
                 (CHOOSE v \in { text[i][2] : i \in kept } :
                     \E i \in kept : text[i] = <<k, v>>) ]

\* Mutant of ConfigDiff: the two set differences are exchanged.
ConfigDiff_Exchanged(a, b) ==
    [ added    |-> DOMAIN a \ DOMAIN b,
      missing  |-> DOMAIN b \ DOMAIN a,
      modified |-> { k \in DOMAIN a \cap DOMAIN b : a[k] # b[k] } ]

\* ConfigDiff(config_a, config_b)
ConfigDiff(a, b) ==
    [ added    |-> DOMAIN b \ DOMAIN a,
      missing  |-> DOMAIN a \ DOMAIN b,
      modified |-> { k \in DOMAIN a \cap DOMAIN b : a[k] # b[k] } ]

\* ConfigDiff.__bool__
DiffBool(d) == d.added # {} \/ d.missing # {} \/ d.modified # {}

\* ConfigDiff.changed_files
changed_files(d) == d.added \cup d.missing \cup d.modified

\* Mutant of ComputeConflicts: only paths modified on both sides count.
ComputeConflicts_ModifiedOnly(remote_diff, working_diff) ==
    remote_diff.modified \cap working_diff.modified

\* ComputeConflicts (as a set; the code returns it sorted).
ComputeConflicts(remote_diff, working_diff) ==
    changed_files(remote_diff) \cap changed_files(working_diff)

\* ComputeConflicts as the list the code returns: sorted(...) of the set.
ConflictList(remote_diff, working_diff) ==
    SortedKeys(ComputeConflicts(remote_diff, working_diff))

\* f with the entries of g added or overwritten.
Overlay(f, g) ==
    [ k \in DOMAIN f \cup DOMAIN g |-> IF k \in DOMAIN g THEN g[k] ELSE f[k] ]

\* f restricted to the keys in S.
Restrict(f, S) == [ k \in S \cap DOMAIN f |-> f[k] ]

\* f without the keys in S.
Without(f, S) == [ k \in DOMAIN f \ S |-> f[k] ]

\* ------------------------------------------------------------------ state

VARIABLES
    ws,             \* ws[c]: the workspace files of c, path -> bytes
    late,           \* late[c]: files of c whose st_mtime > start_time of the running submit
    diskLocal,      \* diskLocal[c]: text of <workspace>/.HEAD
    diskRemote,     \* diskRemote[c]: text of the remote manifest file in c's checkout
    local_config,   \* local_config[c]: HEAD of Client.local_config (in memory)
    remote_config,  \* remote_config[c]: HEAD of Client.remote_config (in memory)
    cache,          \* cache[c]: the per-user cache directory, object name -> bytes
    store,          \* the objects of the bucket, key -> bytes
    pc,             \* pc[c]: "idle", or "ingest" while submit runs its cache loop
    working_config, \* working_config[c]: the working manifest of c's submit, kept while
                    \* it runs and while its successful return is the latest event
    todo,           \* todo[c]: entries of working_config the cache loop has not visited
    last,           \* the latest operation: who ran it and how it returned
    edits,          \* number of events counted against MaxEdits so far
    workers,        \* per-key transfers of a batch whose pull or push call has
                    \* raised, still running in a thread of its pool
    ignore          \* the [config] section of the remote manifest file has the
                    \* option "ignore = a.bin" (in both checkouts)

vars == << ws, late, diskLocal, diskRemote, local_config, remote_config, cache,
           store, pc, working_config, todo, last, edits, workers, ignore >>

NoOperation == [ op |-> "none", who |-> "none", res |-> "none", files |-> {}, quiet |-> TRUE ]

Returned(op, c, res, files) ==
    [ op |-> op, who |-> c, res |-> res, files |-> files, quiet |-> TRUE ]

NoneLate == [ c \in Clients |-> {} ]

\* No submit is running and none is the latest operation.
NoWorking == [ c \in Clients |-> [ p \in {} |-> "" ] ]

AllIdle == \A c \in Clients : pc[c] = "idle"

\* Client.ignore_patterns: the patterns of the "ignore" option of [config],
\* if it is there, and the built-in pattern.
ignore_patterns(c) ==
    (IF ignore THEN { <<"a", ".bin">> } ELSE {}) \cup { <<".", "HEAD">> }

\* What os.walk finds under the workspace root of c: the workspace files and
\* the .HEAD file, which Client.__init__ created there.
Tree(c) == Overlay(ws[c], [ f \in { <<".", "HEAD">> } |-> "manifest" ])

\* State after each user ran Client(config_path) for the first time, the
\* remote manifest having an empty [HEAD]: __init__ writes an empty .HEAD.
\* User A starts with two files in the workspace, user B with none.
Init ==
    /\ ws = [ c \in Clients |->
                IF c = "A" THEN (<<"a", ".bin">> :> "x" @@ <<"#", "b.bin">> :> "y")
                ELSE [ p \in {} |-> "" ] ]
    /\ late = NoneLate
    /\ diskLocal = [ c \in Clients |-> WriteConfig(EmptyHEAD) ]
    /\ diskRemote = [ c \in Clients |-> WriteConfig(EmptyHEAD) ]
    /\ local_config = [ c \in Clients |-> EmptyHEAD ]
    /\ remote_config = [ c \in Clients |-> EmptyHEAD ]
    /\ cache = [ c \in Clients |-> [ h \in {} |-> "" ] ]
    /\ store = [ h \in {} |-> "" ]
    /\ pc = [ c \in Clients |-> "idle" ]
    /\ working_config = NoWorking
    /\ todo = [ c \in Clients |-> {} ]
    /\ last = NoOperation
    /\ edits = 0
    /\ workers = {}
    /\ ignore = FALSE

\* ------------------------------------------------------------ the remote

\* Mutant of has_local: no key is found in the cache.
has_local_Never(objects, key) == FALSE

\* BaseRemote.has_local
has_local(objects, key) == key \in DOMAIN objects

\* The ways a batch can stand when the call raises: the key whose worker
\* failed, the keys whose workers have finished, and the keys whose workers
\* are still running.  Leaving the "with ThreadPool() as pool" block calls
\* pool.terminate(), which does not wait for the threads of the pool.
Raised(keys) ==
    { y \in keys \X (SUBSET keys) \X (SUBSET keys) :
        /\ y[1] \notin y[2] \cup y[3]
        /\ y[2] \cap y[3] = {} }

\* S3Remote.pull(keys): every way the batch can end.  fetch(key) downloads
\* the object into the cache under the name key.  When a key fails (it is
\* not in the bucket, or the transfer fails) the call raises; the downloads
\* the other workers completed stay in the cache.
pull(objects, keys) ==
    { [ ok |-> TRUE, cache |-> Overlay(objects, Restrict(store, keys)), flying |-> {} ] :
        x \in IF keys \subseteq DOMAIN store THEN {1} ELSE {} }
    \cup
    { [ ok |-> FALSE, cache |-> Overlay(objects, Restrict(store, kd[2])),
        flying |-> kd[3] ] : kd \in Raised(keys) }

\* S3Remote.push(keys): every way the batch can end.  upload(key) sends the
\* cache object unless does_key_exist finds the key in the bucket.  When a
\* key fails the call raises; the uploads the other workers completed stay.
push(objects, keys) ==
    { [ ok |-> TRUE,
        store |-> Overlay(store, Restrict(objects, keys \ DOMAIN store)),
        flying |-> {} ] :
        x \in IF keys \subseteq DOMAIN objects \cup DOMAIN store THEN {1} ELSE {} }
    \cup
    { [ ok |-> FALSE,
        store |-> Overlay(store, Restrict(objects, kd[2] \ DOMAIN store)),
        flying |-> kd[3] ] : kd \in Raised(keys) }

\* The pool threads of c that run fetch or upload for the given keys.
Threads(target, c, keys) == { [ target |-> target, who |-> c, key |-> k ] : k \in keys }

\* Client.cache_pull: the keys asked of the remote.
cache_pull_keys(c) ==
    { key \in { remote_config[c][f] : f \in DOMAIN remote_config[c] } :
        ~has_local(cache[c], key) }

\* Client.cache_push: the set comprehension over the touched files.
cache_push_keys(HEAD, touched_files) == { HEAD[file] : file \in touched_files }

\* list(s): the elements of a set, each once, in some order.
RECURSIVE list(_)
list(s) ==
    IF s = {} THEN << >>
    ELSE LET x == CHOOSE y \in s : TRUE IN <<x>> \o list(s \ {x})

\* Client.cache_push: the list of keys handed to remote.push.
cache_push_batch(HEAD, touched_files) == list(cache_push_keys(HEAD, touched_files))

\* shutil.copy2(cache_path, file_path) for each of the given files, the
\* cache object of file being objects[HEAD[file]].
Materialize(files, objects, HEAD, touched) ==
    Overlay(files, [ f \in touched |-> objects[HEAD[f]] ])

\* A manifest of the Client has no [HEAD] section.
Broken(c) == local_config[c] = NoHEAD \/ remote_config[c] = NoHEAD

\* ConfigDiff.__init__ raises KeyError('HEAD'): the operation ends there.
KeyError(op, c) ==
    /\ last' = Returned(op, c, "error", {})
    /\ late' = NoneLate
    /\ working_config' = NoWorking
    /\ UNCHANGED << ws, diskLocal, diskRemote, local_config, remote_config, cache,
                    store, pc, todo, edits, workers, ignore >>

\* ------------------------------------------------------- Client.status

\* Mutant of status: it pulls the objects of the remote manifest first.
status_Pulls(c) ==
    /\ AllIdle
    /\ ~Broken(c)
    /\ \E pulled \in pull(cache[c], cache_pull_keys(c)) :
          cache' = [cache EXCEPT ![c] = pulled.cache]
    /\ last' = Returned("status", c, "ok", {})
    /\ late' = NoneLate
    /\ working_config' = NoWorking
    /\ UNCHANGED << ws, diskLocal, diskRemote, local_config, remote_config,
                    store, pc, todo, edits, workers, ignore >>

status(c) ==
    /\ AllIdle
    /\ IF Broken(c) THEN KeyError("status", c) ELSE
       /\ LET working == BuildConfigForRoot(Tree(c), ignore_patterns(c))
              remote_diff == ConfigDiff(local_config[c], remote_config[c])
              working_diff == ConfigDiff(local_config[c], working)
          IN  last' = Returned("status", c, "ok", ComputeConflicts(remote_diff, working_diff))
       /\ late' = NoneLate
       /\ working_config' = NoWorking
       /\ UNCHANGED << ws, diskLocal, diskRemote, local_config, remote_config, cache,
                       store, pc, todo, edits, workers, ignore >>

\* --------------------------------------------------------- Client.sync

\* local_config["HEAD"] after the two loops of sync.
SyncHEAD(local, remote, remote_diff) ==
    Without(Overlay(local, Restrict(remote, remote_diff.added \cup remote_diff.modified)),
            remote_diff.missing)

\* Mutant of SyncFiles: the files missing on the remote are not unlinked.
SyncFiles_NoUnlink(files, objects, remote, remote_diff) ==
    Materialize(files, objects, remote, remote_diff.added \cup remote_diff.modified)

\* The workspace after the two loops of sync.
SyncFiles(files, objects, remote, remote_diff) ==
    Without(Materialize(files, objects, remote,
                        remote_diff.added \cup remote_diff.modified),
            remote_diff.missing)

sync(c) ==
    /\ AllIdle
    /\ IF Broken(c) THEN KeyError("sync", c) ELSE
       /\ late' = NoneLate
       /\ LET working == BuildConfigForRoot(Tree(c), ignore_patterns(c))
              remote_diff == ConfigDiff(local_config[c], remote_config[c])
              working_diff == ConfigDiff(local_config[c], working)
              conflicts == ComputeConflicts(remote_diff, working_diff)
          IN  IF ~DiffBool(remote_diff) THEN
                  \* No incoming changes, early out.
                  /\ last' = Returned("sync", c, "noop", {})
                  /\ UNCHANGED << ws, diskLocal, local_config, cache, workers >>
              ELSE IF conflicts # {} THEN
                  /\ last' = Returned("sync", c, "conflict", conflicts)
                  /\ UNCHANGED << ws, diskLocal, local_config, cache, workers >>
              ELSE \E pulled \in pull(cache[c], cache_pull_keys(c)) :
                  /\ cache' = [cache EXCEPT ![c] = pulled.cache]
                  /\ workers' = workers \cup Threads("fetch", c, pulled.flying)
                  /\ pulled.flying # {} => edits < MaxEdits
                  /\ IF ~pulled.ok THEN
                         /\ last' = Returned("sync", c, "error", {})
                         /\ UNCHANGED << ws, diskLocal, local_config >>
                     ELSE IF remote_diff.missing \subseteq DOMAIN ws[c] THEN
                         LET HEAD == SyncHEAD(local_config[c], remote_config[c], remote_diff)
                         IN  /\ \/ /\ ws' = [ws EXCEPT ![c] =
                                          SyncFiles(ws[c], pulled.cache, remote_config[c], remote_diff)]
                                   /\ diskLocal' = [diskLocal EXCEPT ![c] = WriteConfig(HEAD)]
                                   /\ local_config' = [local_config EXCEPT ![c] = HEAD]
                                   /\ last' = Returned("sync", c, "ok", {})
                                \/ \* the process stops inside WriteConfig; the next
                                   \* command runs with a new Client
                                   \E text \in Truncations(WriteConfig(HEAD)) :
                                      /\ edits < MaxEdits
                                      /\ ws' = [ws EXCEPT ![c] =
                                             SyncFiles(ws[c], pulled.cache, remote_config[c], remote_diff)]
                                      /\ diskLocal' = [diskLocal EXCEPT ![c] = text]
                                      /\ local_config' = [local_config EXCEPT ![c] =
                                             LoadConfig(text)]
                                      /\ last' = Returned("sync", c, "interrupted", {})
                                \/ \* the process stops inside the two loops, after
                                   \* some copies, or after all copies and some of the
                                   \* deletions; .HEAD is not written and the next
                                   \* command runs with a new Client
                                   \E copied \in SUBSET (remote_diff.added \cup remote_diff.modified) :
                                   \E deleted \in SUBSET remote_diff.missing :
                                     LET part == [ added |-> copied \cap remote_diff.added,
                                                   modified |-> copied \cap remote_diff.modified,
                                                   missing |-> deleted ]
                                     IN  /\ edits < MaxEdits
                                         /\ deleted # {} =>
                                               copied = remote_diff.added \cup remote_diff.modified
                                         /\ ws' = [ws EXCEPT ![c] =
                                                SyncFiles(ws[c], pulled.cache, remote_config[c], part)]
                                         /\ local_config' = [local_config EXCEPT ![c] =
                                                LoadConfig(diskLocal[c])]
                                         /\ last' = Returned("sync", c, "interrupted", copied \cup deleted)
                                         /\ UNCHANGED diskLocal
                                \/ \* the user deletes a file of remote_diff.missing
                                   \* after the working manifest was built: its
                                   \* unlink() raises after the copies and after some
                                   \* of the deletions; .HEAD is not written
                                   \E gone \in remote_diff.missing :
                                   \E done \in SUBSET (remote_diff.missing \ {gone}) :
                                     LET part == [ remote_diff EXCEPT !.missing = done ]
                                     IN  /\ edits < MaxEdits
                                         /\ local_config' = [local_config EXCEPT ![c] =
                                                Without(SyncHEAD(local_config[c], remote_config[c], part),
                                                        {gone})]
                                         /\ ws' = [ws EXCEPT ![c] =
                                                Without(SyncFiles(ws[c], pulled.cache,
                                                                  remote_config[c], part),
                                                        {gone})]
                                         /\ last' = Returned("sync", c, "error", {gone})
                                         /\ UNCHANGED diskLocal
                     ELSE
                         \* unlink() of a file that is not there raises after the
                         \* copies and after some of the deletions; .HEAD is not written.
                         \E gone \in remote_diff.missing \ DOMAIN ws[c] :
                         \E done \in SUBSET (remote_diff.missing \cap DOMAIN ws[c]) :
                           LET part == [ remote_diff EXCEPT !.missing = done ]
                           IN  /\ local_config' = [local_config EXCEPT ![c] =
                                      Without(SyncHEAD(local_config[c], remote_config[c], part),
                                              {gone})]
                               /\ ws' = [ws EXCEPT ![c] =
                                      SyncFiles(ws[c], pulled.cache, remote_config[c], part)]
                               /\ last' = Returned("sync", c, "error", {gone})
                               /\ UNCHANGED diskLocal
       /\ working_config' = NoWorking
       /\ edits' = IF \/ last'.res = "interrupted"
                       \/ workers' # workers
                       \/ (last'.res = "error" /\ last'.files \cap DOMAIN ws[c] # {})
                    THEN edits + 1 ELSE edits
       /\ UNCHANGED << diskRemote, remote_config, store, pc, todo, ignore >>

\* ------------------------------------------------------- Client.revert

\* Mutant of revert: it ends by writing the local manifest to .HEAD.
revert_WritesHEAD(c) ==
    /\ AllIdle
    /\ ~Broken(c)
    /\ LET working == BuildConfigForRoot(Tree(c), ignore_patterns(c))
           working_diff == ConfigDiff(local_config[c], working)
           restore == working_diff.modified \cup working_diff.missing
       IN  /\ \A f \in restore : has_local(cache[c], local_config[c][f])
           /\ ws' = [ws EXCEPT ![c] =
                  Without(Materialize(ws[c], cache[c], local_config[c], restore),
                          working_diff.added)]
           /\ last' = Returned("revert", c, "ok", changed_files(working_diff))
    /\ diskLocal' = [diskLocal EXCEPT ![c] = WriteConfig(local_config[c])]
    /\ late' = NoneLate
    /\ working_config' = NoWorking
    /\ UNCHANGED << diskRemote, local_config, remote_config, cache,
                    store, pc, todo, edits, workers, ignore >>

revert(c) ==
    /\ AllIdle
    /\ IF Broken(c) THEN KeyError("revert", c) ELSE
       /\ late' = NoneLate
       /\ LET working == BuildConfigForRoot(Tree(c), ignore_patterns(c))
              working_diff == ConfigDiff(local_config[c], working)
              restore == working_diff.modified \cup working_diff.missing
              there == { f \in restore : has_local(cache[c], local_config[c][f]) }
          IN  IF ~DiffBool(working_diff) THEN
                  /\ last' = Returned("revert", c, "noop", {})
                  /\ UNCHANGED ws
              ELSE IF there = restore THEN
                  /\ ws' = [ws EXCEPT ![c] =
                         Without(Materialize(ws[c], cache[c], local_config[c], restore),
                                 working_diff.added)]
                  /\ last' = Returned("revert", c, "ok", changed_files(working_diff))
              ELSE
                  \* copy2 of a cache object that is not there raises after some
                  \* of the copies; the added files are not deleted.
                  \E done \in SUBSET there :
                      /\ ws' = [ws EXCEPT ![c] =
                             Materialize(ws[c], cache[c], local_config[c], done)]
                      /\ last' = Returned("revert", c, "error", {})
       /\ working_config' = NoWorking
       /\ UNCHANGED << diskLocal, diskRemote, local_config, remote_config, cache,
                       store, pc, todo, edits, workers, ignore >>

\* ------------------------------------------------------- Client.submit

\* Mutant of SubmitEarlyExit: the two checks in the other order.
SubmitEarlyExit_RemoteFirst(local, remote, working) ==
    IF DiffBool(ConfigDiff(local, remote)) THEN "pending"
    ELSE IF ~DiffBool(ConfigDiff(local, working)) THEN "noop"
    ELSE "proceed"

\* The two early exits of submit: "noop" (no local changes), "pending"
\* (ClientError: pending remote changes), or "proceed".
SubmitEarlyExit(local, remote, working) ==
    IF ~DiffBool(ConfigDiff(local, working)) THEN "noop"
    ELSE IF DiffBool(ConfigDiff(local, remote)) THEN "pending"
    ELSE "proceed"

\* submit up to the cache loop: start_time, the working manifest, the two
\* early exits.  Every file that exists has st_mtime <= start_time.
SubmitStart(c) ==
    /\ AllIdle
    /\ IF Broken(c) THEN KeyError("submit", c) ELSE
       /\ late' = NoneLate
       /\ LET working == BuildConfigForRoot(Tree(c), ignore_patterns(c))
              exit == SubmitEarlyExit(local_config[c], remote_config[c], working)
          IN  IF exit # "proceed" THEN
                     /\ last' = Returned("submit", c, exit, {})
                     /\ working_config' = NoWorking
                     /\ UNCHANGED << pc, todo >>
                 ELSE
                     /\ working_config' = [NoWorking EXCEPT ![c] = working]
                     /\ pc' = [pc EXCEPT ![c] = "ingest"]
                     /\ todo' = [todo EXCEPT ![c] = DOMAIN working]
                     /\ last' = Returned("submit", c, "running", {})
       /\ UNCHANGED << ws, diskLocal, diskRemote, local_config, remote_config, cache,
                       store, edits, workers, ignore >>

\* Mutant of ModifiedWhileRunning: the comparison the other way round.
ModifiedWhileRunning_Inverted(c, file) == file \notin late[c]

\* The guard of step 2: os.stat(temp_path).st_mtime > start_time.  copy2
\* gives the temp file the st_mtime of the workspace file.
ModifiedWhileRunning(c, file) == file \in late[c]

\* One iteration of the cache loop, for the entry (file, key).
SubmitIngest(c, file) ==
    /\ pc[c] = "ingest"
    /\ file \in todo[c]
    /\ LET key == working_config[c][file]
       IN  IF has_local(cache[c], key) THEN
               \* cache_path.is_file(): nothing to copy
               /\ todo' = [todo EXCEPT ![c] = @ \ {file}]
               /\ UNCHANGED << pc, cache, last, late, working_config >>
           ELSE IF file \notin DOMAIN ws[c] THEN
               \* copy2 raises: the file was deleted after it was hashed
               /\ pc' = [pc EXCEPT ![c] = "idle"]
               /\ todo' = [todo EXCEPT ![c] = {}]
               /\ last' = Returned("submit", c, "error", {file})
               /\ working_config' = NoWorking
               /\ UNCHANGED << cache, late >>
           ELSE IF ModifiedWhileRunning(c, file) THEN
               \* temp_path.unlink(); raise ClientError
               /\ pc' = [pc EXCEPT ![c] = "idle"]
               /\ todo' = [todo EXCEPT ![c] = {}]
               /\ last' = Returned("submit", c, "modified", {file})
               /\ working_config' = NoWorking
               /\ UNCHANGED << cache, late >>
           ELSE
               \* os.rename(temp_path, cache_path): the bytes copied are the
               \* bytes the file holds now
               /\ cache' = [cache EXCEPT ![c] = Overlay(@, [ k \in {key} |-> ws[c][file] ])]
               /\ todo' = [todo EXCEPT ![c] = @ \ {file}]
               /\ UNCHANGED << pc, last, late, working_config >>
    /\ UNCHANGED << ws, diskLocal, diskRemote, local_config, remote_config, store, edits, workers, ignore >>

\* Mutant of SubmitWrites: the remote manifest is written first.
SubmitWrites_RemoteFirst(local_text, remote_text, local_HEAD, remote_HEAD) ==
    { [ local |-> WriteConfig(local_HEAD), remote |-> WriteConfig(remote_HEAD),
        done |-> TRUE ],
      [ local |-> local_text, remote |-> remote_text, done |-> FALSE ],
      [ local |-> local_text, remote |-> WriteConfig(remote_HEAD), done |-> FALSE ] }
    \cup { [ local |-> local_text, remote |-> text, done |-> FALSE ] :
             text \in Truncations(WriteConfig(remote_HEAD)) }
    \cup { [ local |-> text, remote |-> WriteConfig(remote_HEAD), done |-> FALSE ] :
             text \in Truncations(WriteConfig(local_HEAD)) }

\* The two WriteConfig calls that end submit, .HEAD first: the texts the two
\* files hold when both calls returned (done), and when the process stopped
\* before the first call, inside it, between the two, or inside the second.
SubmitWrites(local_text, remote_text, local_HEAD, remote_HEAD) ==
    { [ local |-> WriteConfig(local_HEAD), remote |-> WriteConfig(remote_HEAD),
        done |-> TRUE ],
      [ local |-> local_text, remote |-> remote_text, done |-> FALSE ],
      [ local |-> WriteConfig(local_HEAD), remote |-> remote_text, done |-> FALSE ] }
    \cup { [ local |-> text, remote |-> remote_text, done |-> FALSE ] :
             text \in Truncations(WriteConfig(local_HEAD)) }
    \cup { [ local |-> WriteConfig(local_HEAD), remote |-> text, done |-> FALSE ] :
             text \in Truncations(WriteConfig(remote_HEAD)) }

\* Mutant of NotReached: the manifest is written before cache_push is called.
NotReached_Written(text, HEAD) == WriteConfig(HEAD)

\* The text of a manifest file whose WriteConfig call comes after a call
\* that raised: the file is as it was.
NotReached(text, HEAD) == text

\* submit after the cache loop: the in-memory HEADs, cache_push, the two
\* WriteConfig calls.
SubmitFinish(c) ==
    /\ pc[c] = "ingest"
    /\ todo[c] = {}
    /\ LET working == working_config[c]
           working_diff == ConfigDiff(local_config[c], working)
           touched == working_diff.added \cup working_diff.modified
           quiet == BuildConfigForRoot(Tree(c), ignore_patterns(c)) = working
           batch == cache_push_batch(working, touched)
       IN  \E pushed \in push(cache[c], { batch[i] : i \in DOMAIN batch }) :
              /\ store' = pushed.store
              /\ workers' = workers \cup Threads("upload", c, pushed.flying)
              /\ pushed.flying # {} => edits < MaxEdits
              /\ IF ~pushed.ok THEN
                     /\ local_config' = [local_config EXCEPT ![c] = working]
                     /\ remote_config' = [remote_config EXCEPT ![c] = working]
                     /\ last' = Returned("submit", c, "error", {})
                     /\ working_config' = NoWorking
                     /\ diskLocal' = [diskLocal EXCEPT ![c] = NotReached(@, working)]
                     /\ diskRemote' = [diskRemote EXCEPT ![c] = NotReached(@, working)]
                 ELSE
                     \E written \in SubmitWrites(diskLocal[c], diskRemote[c],
                                                 working, working) :
                        /\ written.done \/ edits < MaxEdits
                        /\ diskLocal' = [diskLocal EXCEPT ![c] = written.local]
                        /\ diskRemote' = [diskRemote EXCEPT ![c] = written.remote]
                        /\ IF written.done THEN
                               /\ local_config' = [local_config EXCEPT ![c] = working]
                               /\ remote_config' = [remote_config EXCEPT ![c] = working]
                               /\ last' = [ Returned("submit", c, "ok", {})
                                              EXCEPT !.quiet = quiet ]
                               /\ UNCHANGED working_config
                           ELSE
                               \* the process stopped; the next command runs
                               \* with a new Client
                               /\ local_config' = [local_config EXCEPT ![c] =
                                      LoadConfig(written.local)]
                               /\ remote_config' = [remote_config EXCEPT ![c] =
                                      LoadConfig(written.remote)]
                               /\ last' = Returned("submit", c, "interrupted", {})
                               /\ working_config' = NoWorking
    /\ pc' = [pc EXCEPT ![c] = "idle"]
    /\ edits' = IF last'.res = "interrupted" \/ workers' # workers THEN edits + 1 ELSE edits
    /\ UNCHANGED << ws, late, cache, todo, ignore >>

\* ------------------------------------------------------ the environment

\* Client.__init__: a new Client object reads both manifest files.
NewClient(c) ==
    /\ AllIdle
    /\ local_config' = [local_config EXCEPT ![c] = LoadConfig(diskLocal[c])]
    /\ remote_config' = [remote_config EXCEPT ![c] = LoadConfig(diskRemote[c])]
    /\ last' = NoOperation
    /\ late' = NoneLate
    /\ working_config' = NoWorking
    /\ UNCHANGED << ws, diskLocal, diskRemote, cache, store, pc, todo, edits, workers, ignore >>

\* The user of c updates the checkout to the remote manifest file that d
\* committed (a file a WriteConfig call finished), and runs the next command
\* with a new Client object.
VcsUpdate(c, d) ==
    /\ AllIdle
    /\ c # d
    /\ diskRemote[c] # diskRemote[d]
    /\ IsComplete(diskRemote[d])
    /\ diskRemote' = [diskRemote EXCEPT ![c] = diskRemote[d]]
    /\ local_config' = [local_config EXCEPT ![c] = LoadConfig(diskLocal[c])]
    /\ remote_config' = [remote_config EXCEPT ![c] = LoadConfig(diskRemote'[c])]
    /\ last' = NoOperation
    /\ late' = NoneLate
    /\ working_config' = NoWorking
    /\ UNCHANGED << ws, diskLocal, cache, store, pc, todo, edits, workers, ignore >>

\* The users add the option "ignore = a.bin" to [config] of the remote
\* manifest file, source control carries it to both checkouts, and each runs
\* the next command with a new Client object.
EditConfig ==
    /\ AllIdle
    /\ ~ignore
    /\ \A c \in Clients : IsComplete(diskRemote[c])
    /\ ignore' = TRUE
    /\ local_config' = [ c \in Clients |-> LoadConfig(diskLocal[c]) ]
    /\ remote_config' = [ c \in Clients |-> LoadConfig(diskRemote[c]) ]
    /\ last' = NoOperation
    /\ late' = NoneLate
    /\ working_config' = NoWorking
    /\ UNCHANGED << ws, diskLocal, diskRemote, cache, store, pc, todo, edits, workers >>

\* The user of c writes a workspace file.  While c's submit runs the new
\* st_mtime is either later than start_time (fresh) or not: a file moved or
\* copied into place keeps its old st_mtime.
WsWrite(c, file, bytes, fresh) ==
    /\ edits < MaxEdits
    /\ \A d \in Clients \ {c} : pc[d] = "idle"
    /\ IF pc[c] = "ingest"
       THEN /\ late' = [late EXCEPT ![c] = IF fresh THEN @ \cup {file} ELSE @ \ {file}]
            /\ UNCHANGED << last, working_config >>
       ELSE /\ fresh
            /\ ~(file \in DOMAIN ws[c] /\ ws[c][file] = bytes)
            /\ late' = NoneLate
            /\ last' = NoOperation
            /\ working_config' = NoWorking
    /\ ws' = [ws EXCEPT ![c] = Overlay(@, [ f \in {file} |-> bytes ])]
    /\ edits' = edits + 1
    /\ UNCHANGED << workers, ignore, diskLocal, diskRemote, local_config, remote_config, cache,
                    store, pc, todo >>

\* The user of c deletes a workspace file.
WsDelete(c, file) ==
    /\ edits < MaxEdits
    /\ \A d \in Clients \ {c} : pc[d] = "idle"
    /\ file \in DOMAIN ws[c]
    /\ ws' = [ws EXCEPT ![c] = Without(@, {file})]
    /\ IF pc[c] = "ingest"
       THEN /\ late' = [late EXCEPT ![c] = @ \ {file}]
            /\ UNCHANGED << last, working_config >>
       ELSE /\ late' = NoneLate
            /\ last' = NoOperation
            /\ working_config' = NoWorking
    /\ edits' = edits + 1
    /\ UNCHANGED << workers, ignore, diskLocal, diskRemote, local_config, remote_config, cache,
                    store, pc, todo >>

\* A pool thread left running by a call that raised finishes its transfer:
\* fetch(key) writes the object into the cache, upload(key) sends the cache
\* object unless the key is in the bucket.
WorkerDone(t) ==
    /\ t \in workers
    /\ workers' = workers \ {t}
    /\ IF t.target = "fetch"
       THEN /\ cache' = [cache EXCEPT ![t.who] =
                   Overlay(@, Restrict(store, {t.key}))]
            /\ UNCHANGED store
       ELSE /\ store' = Overlay(store, Restrict(cache[t.who], {t.key} \ DOMAIN store))
            /\ UNCHANGED cache
    /\ UNCHANGED << ws, late, diskLocal, diskRemote, local_config, remote_config,
                    pc, working_config, todo, last, edits, ignore >>

\* A pool thread left running ends without effect: its transfer fails, or
\* the process exits (the threads of the pool are daemon threads).
WorkerGone(t) ==
    /\ t \in workers
    /\ workers' = workers \ {t}
    /\ UNCHANGED << ws, late, diskLocal, diskRemote, local_config, remote_config,
                    cache, store, pc, working_config, todo, last, edits, ignore >>

\* ------------------------------------------------------ specification

Next ==
    \/ \E c \in Clients : status(c)
    \/ \E c \in Clients : sync(c)
    \/ \E c \in Clients : revert(c)
    \/ \E c \in Clients : SubmitStart(c)
    \/ \E c \in Clients, file \in Paths : SubmitIngest(c, file)
    \/ \E c \in Clients : SubmitFinish(c)
    \/ \E c \in Clients : NewClient(c)
    \/ \E c, d \in Clients : VcsUpdate(c, d)
    \/ EditConfig
    \/ \E c \in Clients, file \in Paths, bytes \in Bytes, fresh \in BOOLEAN :
          WsWrite(c, file, bytes, fresh)
    \/ \E c \in Clients, file \in Paths : WsDelete(c, file)
    \/ \E t \in workers : WorkerDone(t)
    \/ \E t \in workers : WorkerGone(t)

Spec == Init /\ [][Next]_vars

\* ------------------------------------- specification for the diff functions

\* Every HEAD section over the paths and hashes of the model.
Manifests == UNION { [ S -> Hashes ] : S \in SUBSET Paths }

\* Every workspace over the paths and contents of the model.
Workspaces == UNION { [ S -> Bytes ] : S \in SUBSET Paths }

\* User A with any local manifest, any remote manifest and any workspace,
\* the two manifest files holding what WriteConfig writes for them and the
\* cache and the bucket holding every object; user B as in Init.
InitDiff ==
    /\ \E files \in Workspaces :
          ws = [ c \in Clients |-> IF c = "A" THEN files ELSE [ p \in {} |-> "" ] ]
    /\ \E a \in Manifests :
          /\ local_config = [ c \in Clients |-> IF c = "A" THEN a ELSE EmptyHEAD ]
          /\ diskLocal = [ c \in Clients |-> WriteConfig(local_config[c]) ]
    /\ \E b \in Manifests :
          /\ remote_config = [ c \in Clients |-> IF c = "A" THEN b ELSE EmptyHEAD ]
          /\ diskRemote = [ c \in Clients |-> WriteConfig(remote_config[c]) ]
    /\ late = NoneLate
    /\ cache = [ c \in Clients |->
                   IF c = "A" THEN [ h \in Hashes |-> CHOOSE x \in Bytes : HashFile(x) = h ]
                   ELSE [ h \in {} |-> "" ] ]
    /\ store = [ h \in Hashes |-> CHOOSE x \in Bytes : HashFile(x) = h ]
    /\ pc = [ c \in Clients |-> "idle" ]
    /\ working_config = NoWorking
    /\ todo = [ c \in Clients |-> {} ]
    /\ last = NoOperation
    /\ edits = 0
    /\ workers = {}
    /\ ignore = FALSE

\* status applies ConfigDiff twice and ComputeConflicts once.
NextDiff == \E c \in Clients : status(c)

SpecDiff == InitDiff /\ [][NextDiff]_vars

\* ------------------------------------------------------------- claims

\* The latest event is the return of operation op by c with a result in rs.
Just(op, c, rs) == last.op = op /\ last.who = c /\ last.res \in rs

\* The disk and the stores an operation may write.
durable == << ws, diskLocal, diskRemote, cache, store >>

\* C1: after a submit that returned successfully with a non-empty working
\* diff, the HEAD read from .HEAD, the HEAD read from the remote manifest
\* file and the working manifest built by that submit are the same mapping.
C1_SubmitManifestsEqual ==
    \A c \in Clients :
        Just("submit", c, {"ok"}) =>
            /\ LoadConfig(diskLocal[c]) = working_config[c]
            /\ LoadConfig(diskRemote[c]) = working_config[c]

\* C2: after a submit that returned successfully, every hash of the manifest
\* it wrote names an object of the local cache and an object of the bucket.
C2_SubmittedHashesStored ==
    \A c \in Clients :
        Just("submit", c, {"ok"}) =>
            \A f \in DOMAIN working_config[c] :
                /\ working_config[c][f] \in DOMAIN cache[c]
                /\ working_config[c][f] \in DOMAIN store

\* C3: after a sync that returned successfully, the HEAD read from .HEAD
\* equals the HEAD read from the remote manifest file, and the remote
\* manifest file holds the text it held before the sync.
C3_SyncLocalEqualsRemote ==
    [][ \A c \in Clients :
          (sync(c) /\ last'.res \in {"ok", "noop"}) =>
              /\ LoadConfig(diskLocal'[c]) = LoadConfig(diskRemote'[c])
              /\ diskRemote' = diskRemote ]_vars

C5_ConflictsBlock ==
    [][ \A c \in Clients :
          LET working == BuildConfigForRoot(Tree(c), ignore_patterns(c))
              remote_diff == ConfigDiff(local_config[c], remote_config[c])
              working_diff == ConfigDiff(local_config[c], working)
              conflicted ==
                  (remote_diff.added \cup remote_diff.missing \cup remote_diff.modified)
                  \cap (working_diff.added \cup working_diff.missing \cup working_diff.modified)
          IN  (~Broken(c) /\ conflicted # {}) =>
                /\ sync(c) => /\ last'.res = "conflict"
                              /\ last'.files = conflicted
                              /\ UNCHANGED durable
                /\ SubmitStart(c) => /\ last'.res = "pending"
                                     /\ pc'[c] = "idle"
                                     /\ UNCHANGED durable ]_vars

\* Witness of C5: a sync was refused for conflicts.
C5_Witness ==
    \E c \in Clients : Just("sync", c, {"conflict"}) /\ last.files # {}

\* C6: submit raises the pending-remote-changes error exactly when local
\* differs from working and local differs from remote, and then writes
\* nothing; when local equals working it returns silently and writes nothing.
\* The comparisons exist only when both loaded manifests have a HEAD section.
C6_FastForwardOnly ==
    [][ \A c \in Clients :
          (~Broken(c) /\ SubmitStart(c)) =>
              LET working == BuildConfigForRoot(Tree(c), ignore_patterns(c))
                  local_changes == local_config[c] # working
                  remote_changes == local_config[c] # remote_config[c]
              IN  /\ last'.res = "pending" <=> (local_changes /\ remote_changes)
                  /\ last'.res = "noop" <=> ~local_changes
                  /\ last'.res \in {"pending", "noop"} =>
                        /\ pc'[c] = "idle"
                        /\ UNCHANGED << durable, local_config, remote_config >> ]_vars

\* Witness of C6: a submit was refused for pending remote changes.
C6_Witness == \E c \in Clients : Just("submit", c, {"pending"})

\* C7: after a submit that wrote both manifests and returned, the workspace
\* being as that submit hashed it, a second submit changes nothing: from the same
\* Client object it takes the early exit; from a new Client object it takes
\* the early exit, or it passes the pending-changes check, writes the text
\* both manifest files already hold, copies nothing into the cache and
\* uploads nothing.
C7_SubmitIdempotent ==
    \A c \in Clients :
        (Just("submit", c, {"ok"}) /\ last.quiet) =>
            LET working == BuildConfigForRoot(Tree(c), ignore_patterns(c))
                local == LoadConfig(diskLocal[c])
                remote == LoadConfig(diskRemote[c])
                touched == { f \in DOMAIN working :
                               f \notin DOMAIN local \/ local[f] # working[f] }
            IN  /\ local_config[c] = working
                /\ local # working =>
                      /\ local = remote
                      /\ diskLocal[c] = WriteConfig(working)
                      /\ diskRemote[c] = WriteConfig(working)
                      /\ \A f \in DOMAIN working : working[f] \in DOMAIN cache[c]
                      /\ \A f \in touched : working[f] \in DOMAIN store

\* C8: the remote manifest file of c holds the lines successful submits
\* wrote.  After a sync of c that returned successfully, every path p of
\* such a line that c has not changed locally is a workspace file of c
\* whose bytes hash to the hash of the line, and the cache of c holds the
\* object of that name.
C8_RoundTrip ==
    [][ \A c \in Clients :
          (sync(c) /\ last'.res \in {"ok", "noop"}) =>
              LET working == BuildConfigForRoot(Tree(c), ignore_patterns(c))
                  local == local_config[c]
                  untouched == { f \in Paths :
                                   /\ f \in DOMAIN local <=> f \in DOMAIN working
                                   /\ f \in DOMAIN local => local[f] = working[f] }
              IN  \A i \in 1..Len(diskRemote[c]) :
                      LET p == diskRemote[c][i][1]
                          h == diskRemote[c][i][2]
                      IN  p \in untouched =>
                            /\ p \in DOMAIN ws'[c]
                            /\ HashFile(ws'[c][p]) = h
                            /\ h \in DOMAIN cache'[c] ]_vars

\* C9: every hash of the HEAD read from .HEAD names a cache object, and
\* every cache object holds bytes whose SHA-1 is its name.
C9_CacheIntegrity ==
    \A c \in Clients :
        /\ LoadConfig(diskLocal[c]) # NoHEAD =>
              \A f \in DOMAIN LoadConfig(diskLocal[c]) :
                  LoadConfig(diskLocal[c])[f] \in DOMAIN cache[c]
        /\ \A h \in DOMAIN cache[c] : HashFile(cache[c][h]) = h

C12_IgnoreClosure ==
    \A c \in Clients :
        (Just("sync", c, {"ok"}) \/ Just("submit", c, {"ok"})) =>
            \A HEAD \in { working_config[c], local_config[c], remote_config[c],
                          LoadConfig(diskLocal[c]), LoadConfig(diskRemote[c]) } :
                DOMAIN HEAD \cap ignore_patterns(c) = {}

\* C11: when a submit returns successfully and the workspace is as that
\* submit hashed it, any two workspace paths with the same bytes have lines
\* with one and the same hash in both written manifests, exactly one cache
\* object holds those bytes, and no key occurs twice in the list of keys
\* handed to remote.push.
C11_Deduplication ==
    [][ \A c \in Clients :
          (SubmitFinish(c) /\ last'.res = "ok" /\ last'.quiet) =>
              LET working_diff == ConfigDiff(local_config[c], working_config[c])
                  batch == cache_push_batch(working_config[c],
                               working_diff.added \cup working_diff.modified)
              IN  /\ \A i, j \in DOMAIN batch : batch[i] = batch[j] => i = j
                  /\ \A p, q \in DOMAIN ws'[c] :
                        (p # q /\ ws'[c][p] = ws'[c][q]) =>
                            /\ \E h \in Hashes :
                                  \A text \in { diskLocal'[c], diskRemote'[c] } :
                                      /\ \E i \in DOMAIN text : text[i] = <<p, h>>
                                      /\ \E i \in DOMAIN text : text[i] = <<q, h>>
                            /\ Cardinality({ h \in DOMAIN cache'[c] :
                                               cache'[c][h] = ws'[c][p] }) = 1 ]_vars

\* C13: revert changes neither manifest file, and after a revert that
\* returned successfully the working manifest rebuilt from the workspace
\* equals the local manifest, so that a revert run next finds no changes.
C13_RevertRestores ==
    [][ \A c \in Clients :
          revert(c) =>
              /\ UNCHANGED << diskLocal, diskRemote >>
              /\ last'.res \in {"ok", "noop"} =>
                    BuildConfigForRoot(Tree(c), ignore_patterns(c))' = local_config'[c] ]_vars

\* C14: a sync that fails in the pull changes no manifest file and no
\* workspace file; a submit that fails in the cache loop (a copy that
\* raises, the st_mtime guard) or in the push changes no manifest file.
C14_FailureLeavesManifests ==
    [][ \A c \in Clients :
          /\ (sync(c) /\ last'.res = "error" /\ last'.files = {}) =>
                UNCHANGED << diskLocal, diskRemote, ws >>
          /\ \A file \in Paths :
                (SubmitIngest(c, file) /\ last'.res \in {"error", "modified"}) =>
                    UNCHANGED << diskLocal, diskRemote >>
          /\ (SubmitFinish(c) /\ last'.res = "error") =>
                UNCHANGED << diskLocal, diskRemote >> ]_vars

\* Witness of C14: a push failed after it uploaded an object.
C14_Witness ==
    \E c \in Clients :
        /\ Just("submit", c, {"error"})
        /\ last.files = {}
        /\ ~Broken(c)
        /\ store # << >>
        /\ LoadConfig(diskRemote[c]) = EmptyHEAD

\* C15: when the push of a submit failed and the same Client runs submit
\* again on the unchanged workspace, the retry goes on to the cache loop and
\* the push; it takes the early exit only if both manifest files already
\* hold the working manifest and every hash of it is in the bucket.
C15_RetryAfterPartialPush ==
    [][ \A c \in Clients :
          (Just("submit", c, {"error"}) /\ last.files = {} /\ ~Broken(c) /\ SubmitStart(c)) =>
              LET working == BuildConfigForRoot(Tree(c), ignore_patterns(c))
              IN  \/ last'.res = "running"
                  \/ /\ diskLocal[c] = WriteConfig(working)
                     /\ diskRemote[c] = WriteConfig(working)
                     /\ \A f \in DOMAIN working : working[f] \in DOMAIN store ]_vars

\* C16: in every reachable state, an interrupted sync or submit included,
\* .HEAD and the remote manifest file each hold all of what some WriteConfig
\* call wrote, never an empty or cut-off text.
C16_AtomicManifestWrites ==
    \A c \in Clients : IsComplete(diskLocal[c]) /\ IsComplete(diskRemote[c])

\* C17: status changes no workspace file, no manifest file, no cache object
\* and no bucket object (it makes no pull and no push), and it leaves the
\* manifests of the Client as they are.
C17_StatusReadOnly ==
    [][ \A c \in Clients :
          status(c) => UNCHANGED << durable, local_config, remote_config >> ]_vars

\* Witness of C17: status ran on a Client with remote changes, local
\* changes and a conflict between them.
C17_Witness ==
    \E c \in Clients :
        /\ Just("status", c, {"ok"})
        /\ last.files # {}
        /\ cache_pull_keys(c) # {}

\* C18: no step of submit changes a workspace file; sync, revert and status
\* leave the remote manifest file alone, and of the commands only submit
\* writes it; only sync and submit write .HEAD; only sync and submit add
\* cache objects.
C18_WriteOwnership ==
    [][ \A c \in Clients :
          /\ (SubmitStart(c) \/ SubmitFinish(c) \/ \E file \in Paths : SubmitIngest(c, file))
                => ws' = ws
          /\ (sync(c) \/ revert(c) \/ status(c)) => diskRemote' = diskRemote
          /\ diskRemote'[c] # diskRemote[c] =>
                (SubmitFinish(c) \/ \E d \in Clients : VcsUpdate(c, d))
          /\ diskLocal'[c] # diskLocal[c] => (sync(c) \/ SubmitFinish(c))
          /\ cache'[c] # cache[c] =>
                (sync(c) \/ \E file \in Paths : SubmitIngest(c, file)) ]_vars

\* Witness of C18: a revert restored workspace files of a submitted manifest.
C18_Witness ==
    \E c \in Clients :
        /\ Just("revert", c, {"ok"})
        /\ last.files # {}
        /\ LoadConfig(diskLocal[c]) \notin {EmptyHEAD, NoHEAD}

\* C19: within one submit every cache ingest comes before the push (the
\* step that pushes copies nothing into the cache, the steps of the cache
\* loop upload nothing and write no manifest), every key of the batch is in
\* the bucket before a manifest file is written, and .HEAD is written before
\* the remote manifest: when a step of submit changes the remote manifest
\* file, .HEAD holds the new HEAD in full.
C19_SubmitOrdering ==
    [][ \A c \in Clients :
          /\ \A file \in Paths :
                SubmitIngest(c, file) => UNCHANGED << store, diskLocal, diskRemote >>
          /\ SubmitStart(c) => UNCHANGED << cache, store, diskLocal, diskRemote >>
          /\ SubmitFinish(c) =>
                LET working == working_config[c]
                    working_diff == ConfigDiff(local_config[c], working)
                    touched == working_diff.added \cup working_diff.modified
                IN  /\ cache' = cache
                    /\ (diskLocal'[c] # diskLocal[c] \/ diskRemote'[c] # diskRemote[c]) =>
                          \A f \in touched : working[f] \in DOMAIN store'
                    /\ diskRemote'[c] # diskRemote[c] =>
                          diskLocal'[c] = WriteConfig(working) ]_vars

\* Witness of C19: a submit was interrupted between its two manifest writes.
C19_Witness ==
    \E c \in Clients :
        /\ Just("submit", c, {"interrupted"})
        /\ IsComplete(diskLocal[c])
        /\ IsComplete(diskRemote[c])
        /\ LoadConfig(diskLocal[c]) # LoadConfig(diskRemote[c])

\* C20: a submit that fails or is interrupted, no manifest write being cut
\* off, leaves the two manifest files with equal HEADs if they had equal
\* HEADs before it, and a sync run right after it changes no workspace file.
C20_BoundedInconsistency ==
    [][ \A c \in Clients :
          /\ ( /\ SubmitFinish(c) \/ \E file \in Paths : SubmitIngest(c, file)
               /\ last'.res \in {"error", "modified", "interrupted"}
               /\ IsComplete(diskLocal'[c]) /\ IsComplete(diskRemote'[c])
               /\ LoadConfig(diskLocal[c]) = LoadConfig(diskRemote[c]) )
                => LoadConfig(diskLocal'[c]) = LoadConfig(diskRemote'[c])
          /\ ( /\ Just("submit", c, {"error", "modified", "interrupted"})
               /\ IsComplete(diskLocal[c]) /\ IsComplete(diskRemote[c])
               /\ sync(c) )
                => ws' = ws ]_vars

\* C21: when a sync was stopped after it copied or deleted some workspace
\* files of remote_diff and before it wrote .HEAD, a sync run next with a new
\* Client does not raise the conflict error for a path the stopped run
\* updated, and when it returns successfully the HEAD read from .HEAD equals
\* the HEAD read from the remote manifest file.
C21_InterruptedSyncRecoverable ==
    [][ \A c \in Clients :
          ( /\ Just("sync", c, {"interrupted"})
            /\ last.files # {}
            /\ local_config[c] = LoadConfig(diskLocal[c])
            /\ remote_config[c] = LoadConfig(diskRemote[c])
            /\ sync(c) )
              => /\ ~(last'.res = "conflict" /\ last'.files \cap last.files # {})
                 /\ last'.res \in {"ok", "noop"} =>
                       LoadConfig(diskLocal'[c]) = LoadConfig(diskRemote'[c]) ]_vars

\* C22: when a pull or push call has returned or raised, no fetch or upload
\* of its batch is still running, and the bucket and the cache change only
\* inside the operation that made the call.
C22_BatchTerminated ==
    [][ /\ workers' = {}
        /\ store' # store => \E c \in Clients : SubmitFinish(c)
        /\ cache' # cache =>
              \E c \in Clients : sync(c) \/ \E file \in Paths : SubmitIngest(c, file) ]_vars

\* C23: no step deletes a cache object or changes its bytes; a sync that
\* goes past the conflict check asks the remote only for keys that are not
\* in the cache, and the cache loop of submit creates only an object whose
\* name was not in the cache.
C23_CacheAppendOnly ==
    [][ \A c \in Clients :
          /\ \A h \in DOMAIN cache[c] :
                h \in DOMAIN cache'[c] /\ cache'[c][h] = cache[c][h]
          /\ (sync(c) /\ last'.res \in {"ok", "error", "interrupted"} /\ ~Broken(c)) =>
                cache_pull_keys(c) \cap DOMAIN cache[c] = {}
          /\ \A file \in Paths :
                (SubmitIngest(c, file) /\ cache'[c] # cache[c]) =>
                    DOMAIN cache'[c] \ DOMAIN cache[c] = {working_config[c][file]} ]_vars

\* Witness of C23: a submit returned successfully whose working manifest
\* names one hash for two paths, so its cache loop met a hash that was
\* already in the cache.
C23_Witness ==
    \E c \in Clients :
        /\ Just("submit", c, {"ok"})
        /\ \E p, q \in DOMAIN working_config[c] :
              p # q /\ working_config[c][p] = working_config[c][q]
        /\ \A p \in DOMAIN working_config[c] : working_config[c][p] \in DOMAIN cache[c]

\* C24: for the local manifest A, the remote manifest B and the working
\* manifest W of a user, ConfigDiff(A, B) has added = keys(B) \ keys(A),
\* missing = keys(A) \ keys(B) and modified = the common keys with different
\* values; the three sets are pairwise disjoint; the diff is truthy exactly
\* when A and B differ; added of ConfigDiff(A, B) is missing of
\* ConfigDiff(B, A); and ComputeConflicts of ConfigDiff(A, B) and
\* ConfigDiff(A, W) is the list, in ascending order and without repetition,
\* of the paths changed in both, which is what status reports.
C24_DiffLaws ==
    \A c \in Clients :
        LET A == local_config[c]
            B == remote_config[c]
            W == BuildConfigForRoot(Tree(c), ignore_patterns(c))
            d1 == ConfigDiff(A, B)
            d2 == ConfigDiff(A, W)
            conflicts == ConflictList(d1, d2)
        IN  /\ d1.added = DOMAIN B \ DOMAIN A
            /\ d1.missing = DOMAIN A \ DOMAIN B
            /\ d1.modified = { k \in DOMAIN A \cap DOMAIN B : A[k] # B[k] }
            /\ d1.added \cap d1.missing = {}
            /\ d1.added \cap d1.modified = {}
            /\ d1.missing \cap d1.modified = {}
            /\ DiffBool(d1) <=> A # B
            /\ DiffBool(d2) <=> A # W
            /\ d1.added = ConfigDiff(B, A).missing
            /\ { conflicts[i] : i \in DOMAIN conflicts } =
                  changed_files(d1) \cap changed_files(d2)
            /\ \A i, j \in DOMAIN conflicts :
                  i < j => Codepoint(conflicts[i][1]) < Codepoint(conflicts[j][1])
            /\ Just("status", c, {"ok"}) =>
                  last.files = { conflicts[i] : i \in DOMAIN conflicts }

\* Witness of C24: status reported two conflicting paths, one added on the
\* remote and one modified on the remote.
C24_Witness ==
    \E c \in Clients :
        /\ Just("status", c, {"ok"})
        /\ Cardinality(last.files) = 2
        /\ ConfigDiff(local_config[c], remote_config[c]).added # {}
        /\ ConfigDiff(local_config[c], remote_config[c]).modified # {}

\* C25: in a sync that goes past the conflict check, every path of
\* remote_diff, and every workspace file the sync changes or deletes, either
\* was not in the workspace before the sync or held bytes whose hash is the
\* entry of its path in the local manifest (the Client's and the one read
\* from .HEAD); a file whose hash differs from its entry, or that has no
\* entry, is in the workspace after the sync with the same bytes.
C25_SyncKeepsUnsubmittedWork ==
    [][ \A c \in Clients :
          (sync(c) /\ ~Broken(c) /\ last'.res \in {"ok", "error", "interrupted"}) =>
              LET local == local_config[c]
                  disk == LoadConfig(diskLocal[c])
                  remote_diff == ConfigDiff(local, remote_config[c])
                  written == { f \in Paths :
                                 \/ f \in DOMAIN ws[c] /\ f \notin DOMAIN ws'[c]
                                 \/ f \in DOMAIN ws'[c] /\ f \notin DOMAIN ws[c]
                                 \/ /\ f \in DOMAIN ws[c] \cap DOMAIN ws'[c]
                                    /\ ws'[c][f] # ws[c][f] }
                  touched == written \cup
                             IF last'.res = "ok" THEN changed_files(remote_diff) ELSE {}
                  submitted(f, HEAD) ==
                      f \in DOMAIN HEAD /\ HashFile(ws[c][f]) = HEAD[f]
              IN  /\ \A f \in touched :
                        \/ f \notin DOMAIN ws[c]
                        \/ submitted(f, local) /\ submitted(f, disk)
                  /\ \A f \in DOMAIN ws[c] :
                        ~submitted(f, local) =>
                            /\ f \notin touched
                            /\ f \in DOMAIN ws'[c]
                            /\ ws'[c][f] = ws[c][f] ]_vars

\* C26: in a sync that goes past the conflict check and whose pull
\* succeeded, every path of remote_diff.missing is a file of the workspace
\* when the loops start, every path of remote_diff.added and
\* remote_diff.modified has its remote hash in the cache after the pull, and
\* the sync does not raise from an unlink or a copy.
C26_SyncLoopsNeverFail ==
    [][ \A c \in Clients :
          (sync(c) /\ ~Broken(c)) =>
              LET working == BuildConfigForRoot(Tree(c), ignore_patterns(c))
                  remote_diff == ConfigDiff(local_config[c], remote_config[c])
                  working_diff == ConfigDiff(local_config[c], working)
                  conflicts == ComputeConflicts(remote_diff, working_diff)
                  pull_raised == last'.res = "error" /\ last'.files = {}
              IN  (DiffBool(remote_diff) /\ conflicts = {} /\ ~pull_raised) =>
                      /\ remote_diff.missing \subseteq DOMAIN ws[c]
                      /\ \A f \in remote_diff.added \cup remote_diff.modified :
                            remote_config[c][f] \in DOMAIN cache'[c]
                      /\ last'.res \in {"ok", "interrupted"} ]_vars

\* C27: when an operation of a Client has returned or raised, the process
\* still running, the in-memory local manifest is the HEAD stored in .HEAD
\* and the in-memory remote manifest is the HEAD stored in the remote
\* manifest file (the file holds the text WriteConfig gives for the
\* in-memory HEAD, or the in-memory HEAD is what LoadConfig reads from it).
C27_MemoryEqualsDisk ==
    \A c \in Clients :
        ( /\ last.who = c
          /\ last.op \in {"status", "sync", "submit", "revert"}
          /\ last.res \notin {"running", "interrupted"} ) =>
            /\ \/ diskLocal[c] = WriteConfig(local_config[c])
               \/ LoadConfig(diskLocal[c]) = local_config[c]
            /\ \/ diskRemote[c] = WriteConfig(remote_config[c])
               \/ LoadConfig(diskRemote[c]) = remote_config[c]
====
